---- MODULE Spec2Model ----
(***************************************************************************)
(* Model of joj_submitter/__main__.py: one run of the command line tool    *)
(* (main), which checks the SID, uploads an archive (upload_file, submit)  *)
(* and polls and aggregates the evaluation record (get_status).            *)
(*                                                                         *)
(* Text is a sequence of atoms.  An atom is an indivisible chunk of        *)
(* characters: a whitespace character (" ", "\n"), a single character of a *)
(* time cell ("1", "m", "s") or a whole word ("Accepted", "Running").      *)
(* An optional value (a node that find/select_one may not find) is a       *)
(* sequence of length 0 (None) or 1.                                       *)
(***************************************************************************)
EXTENDS Integers, Sequences, FiniteSets, TLC

\* ------------------------------------------------------------------ bounds
MaxRows == 2
MaxPolls == 2

\* ------------------------------------------------------------ text helpers
None == <<>>

Some(x) == <<x>>

IsNone(o) == o = <<>>

Get(o) == o[1]

Whitespace == {" ", "\n"}

RECURSIVE LStrip(_)
LStrip(t) == IF t = <<>> THEN t
             ELSE IF Head(t) \in Whitespace THEN LStrip(Tail(t)) ELSE t

RECURSIVE RStrip(_)
RStrip(t) == IF t = <<>> THEN t
             ELSE IF t[Len(t)] \in Whitespace THEN RStrip(SubSeq(t, 1, Len(t) - 1)) ELSE t

\* str.strip()
Strip(t) == RStrip(LStrip(t))

\* str.replace("ms", " ms"): every non-overlapping occurrence, left to right
RECURSIVE ReplaceMs(_)
ReplaceMs(t) == IF t = <<>> THEN t
                ELSE IF Len(t) >= 2 /\ t[1] = "m" /\ t[2] = "s"
                     THEN <<" ", "m", "s">> \o ReplaceMs(SubSeq(t, 3, Len(t)))
                     ELSE <<Head(t)>> \o ReplaceMs(Tail(t))

\* the literal "Accepted" of lines 121, 192, 203, 235
AcceptedLit == <<"Accepted">>

\* the list of line 104
InProgressList == {<<"Waiting">>, <<"Compiling">>, <<"Fetched">>, <<"Running">>}

\* mutant: "Fetched" left out of the list
InProgress_NoFetched(st) == st \in InProgressList \ {<<"Fetched">>}

\* line 104: status in ["Waiting", "Compiling", "Fetched", "Running"]
InProgress(st) == st \in InProgressList

\* mutant: the comparison folds case
IsAccepted_AnyCase(detail_status) == detail_status \in {<<"Accepted">>, <<"accepted">>}

\* line 121: "Accepted" == detail_status
IsAccepted(detail_status) == detail_status = AcceptedLit

\* ------------------------------------------------------- inputs of the run
\* sid as main receives it: unset (typer default "<EMPTY>"), empty, or a value
Sids == {"<EMPTY>", "", "sid1"}

\* problem_url as path segments; lines 78-80 look at the last one
ProblemUrls == {<<"p", "1">>, <<"p", "1", "submit">>}

\* status codes a response can carry; 0 stands for a request that raised
\* (requests.exceptions.RequestException) instead of returning a response
NetFail == 0

LoginCodes == {200, 401, 500, NetFail}

UploadCodes == {200, 201, 204, 404, 500, NetFail}

\* the submit page: the csrf_token input (its value) or nothing, or no response
SubmitPages == {[ok |-> TRUE, csrf |-> Some(<<"tok">>)], [ok |-> TRUE, csrf |-> None],
                [ok |-> FALSE, csrf |-> None]}

\* ------------------------------------------------------- record documents
Deco == <<"icon">>

\* find_all("span") of a status cell: texts of the spans, in document order
OneSpan == <<Deco>>

AcceptedSpans == <<Deco, <<" ", "Accepted", "\n">> >>

LowerCaseSpans == <<Deco, <<"accepted">> >>

SignalSpans == <<Deco, <<"Wrong Answer">>, <<" ", "SIGSEGV", " ">> >>

BlankThirdSpans == <<Deco, <<"Wrong Answer">>, <<" ">> >>

\* text of a time cell: unit next to the numeral, unit after a space, no unit
Time1 == <<" ", "1", "m", "s", "\n">>

TimeSpaced == <<"1", " ", "m", "s">>

TimeNoUnit == <<"1">>

Mem1 == <<"1", "MiB">>

Href == Some("/d/1")

\* a row of the case table: the status cell (its spans and its <a>), the
\* time cell and the memory cell
Row(cell, spans, a, time, memory) ==
    [cell |-> cell, spans |-> spans, a |-> a, time |-> time, memory |-> memory]

\* rows with and without a link, with 1, 2 and 3 spans, with each kind of
\* time cell, and rows that lack the status, the time or the memory cell
RowSet == { Row(TRUE, OneSpan, None, Some(Time1), Some(Mem1)),
            Row(TRUE, AcceptedSpans, None, Some(Time1), Some(Mem1)),
            Row(TRUE, AcceptedSpans, Href, Some(TimeSpaced), Some(Mem1)),
            Row(TRUE, LowerCaseSpans, None, Some(TimeNoUnit), Some(Mem1)),
            Row(TRUE, SignalSpans, None, Some(Time1), Some(Mem1)),
            Row(TRUE, SignalSpans, Href, Some(Time1), Some(Mem1)),
            Row(TRUE, BlankThirdSpans, Href, Some(Time1), Some(Mem1)),
            Row(FALSE, <<>>, None, Some(Time1), Some(Mem1)),
            Row(TRUE, AcceptedSpans, None, None, Some(Mem1)),
            Row(TRUE, AcceptedSpans, Href, Some(Time1), None) }

RECURSIVE SeqsUpTo(_, _)
SeqsUpTo(S, n) == IF n = 0 THEN {<<>>}
                  ELSE LET P == SeqsUpTo(S, n - 1)
                       IN P \cup { Append(p, x) : p \in {q \in P : Len(q) = n - 1}, x \in S }

\* div.section__body.no-padding inside #status: absent, without a table, or
\* with the rows of table.tbody
Bodies == {None} \cup {Some([table |-> FALSE, rows |-> <<>>])}
          \cup { Some([table |-> TRUE, rows |-> r]) : r \in SeqsUpTo(RowSet, MaxRows) }

\* texts of the <dd> of #summary, or no #summary
Summaries == { None,
               Some(<< <<"100">> >>),
               Some(<< <<"100">>, <<"2", "m", "s">> >>),
               Some(<< <<"100">>, <<"2", "m", "s">>, <<"1", "MiB">> >>) }

\* text of the first .compiler-text, or none
CompilerTexts == { None, Some(<<"\n", "warning", " ">>) }

\* text of the overall-status span, or no such span
StatusNodes == { None, Some(<<"\n", "Accepted", " ">>),
                 Some(<<"accepted">>), Some(<<"Wrong Answer">>),
                 Some(<<"Waiting">>), Some(<<"Compiling">>), Some(<<"Fetched">>),
                 Some(<<" ", "Running", "\n">>) }

Doc(st, su, ct, b) == [ok |-> TRUE, status |-> st, summary |-> su, compiler |-> ct, body |-> b]

NoDoc == [ok |-> FALSE, status |-> None, summary |-> None, compiler |-> None, body |-> None]

\* get_status reads a record page in a fixed order and stops at the first
\* node it misses, so the pages are enumerated up to the part that is read:
\* only the status span of a page without one or with a status in progress
\* (lines 95-107), nothing after a missing #summary or one with a single <dd>
\* (lines 108-111), nothing after a missing .compiler-text (line 112).
ReadsSummary(st) == ~IsNone(st) /\ Strip(Get(st)) \notin InProgressList

ReadsCompiler(su) == ~IsNone(su) /\ Len(Get(su)) >= 2

RecordDocs == { Doc(st, None, None, None) : st \in { s \in StatusNodes : ~ReadsSummary(s) } }
              \cup { Doc(st, su, None, None) : st \in { s \in StatusNodes : ReadsSummary(s) },
                                               su \in Summaries }
              \cup { Doc(st, su, ct, b) : st \in { s \in StatusNodes : ReadsSummary(s) },
                                          su \in { x \in Summaries : ReadsCompiler(x) },
                                          ct \in CompilerTexts \ {None}, b \in Bodies }
              \cup { NoDoc }

\* find_all("pre", class_="compiler-text") of a detail page, or no response
DetailPages == { [ok |-> FALSE, pre |-> <<>>],
                 [ok |-> TRUE, pre |-> <<>>],
                 [ok |-> TRUE, pre |-> << <<" ", "err">>, <<"out", "\n">> >>],
                 [ok |-> TRUE, pre |-> << <<" ", "err">>, <<"out", "\n">>, <<"ans">> >>] }

\* ------------------------------------------------------------------- state
VARIABLES argsValid, sid, no_wait, problem_url,
          pc, trace,
          post_url, csrf_token, response,
          soup, status,
          summaries, compiler_text, table_rows, details, accepted_count,
          res, accepted,
          exit_code, error, exc,
          slept, pass, first

inputs == <<argsValid, sid, no_wait, problem_url>>

upload == <<post_url, csrf_token, response>>

poll == <<soup, status>>

agg == <<summaries, compiler_text, table_rows, details, accepted_count>>

fin == <<res, accepted>>

outcome == <<exit_code, error, exc>>

\* pass and first belong to the second call of get_status (Again below):
\* which call is running and the Record the first one returned
again == <<pass, first>>

vars == <<inputs, pc, trace, upload, poll, agg, fin, outcome, slept, again>>

\* One entry of the history of requests and sleeps: the operation, the
\* 1-based row of a detail-page GET (0 otherwise), the status code of the
\* response (NetFail when the request raised, 200 for a page whose code is
\* not looked at) and what the fetched page showed in the node the code reads
\* next (csrf input of the submit page, status span of the record page,
\* the <pre class="compiler-text"> blocks of a detail page).
Ev(op, row, code, seen) == [op |-> op, row |-> row, code |-> code, seen |-> seen]

Page(ok) == IF ok THEN 200 ELSE NetFail

Count(op) == Cardinality({ k \in 1..Len(trace) : trace[k].op = op })

NoError == [msg |-> "", code |-> 0]

NoExit == -1

Init == /\ argsValid \in BOOLEAN
        /\ sid \in Sids
        /\ no_wait \in BOOLEAN
        /\ problem_url \in ProblemUrls
        /\ pc = "main"
        /\ trace = <<>>
        /\ post_url = <<>>
        /\ csrf_token = <<>>
        /\ response = None
        /\ soup = NoDoc
        /\ status = <<>>
        /\ summaries = <<>>
        /\ compiler_text = <<>>
        /\ table_rows = <<>>
        /\ details = <<>>
        /\ accepted_count = 0
        /\ res = None
        /\ accepted = None
        /\ exit_code = NoExit
        /\ error = NoError
        /\ exc = ""
        /\ slept = 0
        /\ pass = 1
        /\ first = None

\* ------------------------------------------------------- ways a step ends
\* an exception main does not catch: traceback, interpreter exit status 1
Crash(e) == /\ pc' = "done"
            /\ exc' = e
            /\ exit_code' = 1
            /\ UNCHANGED error

\* lines 333-338: ValidationError or AssertionError, logged as "Error: ...",
\* typer.Exit(128)
Fail(m, c) == /\ pc' = "done"
              /\ error' = [msg |-> m, code |-> c]
              /\ exit_code' = 128
              /\ UNCHANGED exc

Goto(p) == /\ pc' = p
           /\ UNCHANGED outcome

\* line 332: typer.Exit(not accepted)
ExitCode(acc) == IF acc THEN 0 ELSE 1

\* line 320: sid and sid != "<EMPTY>"
SidOk(s) == s # "" /\ s # "<EMPTY>"

\* mutant: the status code of the login check is not looked at
LoginOk_Unchecked(code) == TRUE

\* line 74: status_code == 200
LoginOk(code) == code = 200

\* lines 78-80
PostUrl(url) == IF url[Len(url)] = "submit" THEN url ELSE Append(url, "submit")

\* mutant: the assertion is missing
CsrfFound_Unchecked(node) == TRUE

\* line 84: assert csrf_token_node
CsrfFound(node) == ~IsNone(node)

\* mutant: the assertion is missing
UploadOk_Unchecked(code) == TRUE

\* mutant: any 2xx code passes
UploadOk_Any2xx(code) == code \in 200..299

\* line 184: response.status_code == 200
UploadOk(code) == code = 200

\* mutant: the flag is not looked at
ReturnsAfterUpload_Never(nw) == FALSE

\* line 187: if no_wait: return True
ReturnsAfterUpload(nw) == nw

\* lines 308-320: argument validation, then the SID assertion
Main == /\ pc = "main"
        /\ IF ~argsValid THEN Fail("validation", 0)
           ELSE IF ~SidOk(sid) THEN Fail("Empty SID", 0)
           ELSE Goto("init")
        /\ UNCHANGED <<slept, again, inputs, trace, upload, poll, agg, fin>>

\* lines 63-75 (called from line 321): the login check
Construct == /\ pc = "init"
             /\ \E code \in LoginCodes :
                  /\ trace' = Append(trace, Ev("login", 0, code, None))
                  /\ IF code = NetFail THEN Crash("RequestException")
                     ELSE IF ~LoginOk(code) THEN Fail("Unauthorized SID", 0)
                     ELSE Goto("upload_get")
             /\ UNCHANGED <<slept, again, inputs, upload, poll, agg, fin>>

\* lines 77-85 (called from line 182): GET of the submit page, csrf token
UploadGet == /\ pc = "upload_get"
             /\ post_url' = PostUrl(problem_url)
             /\ \E page \in SubmitPages :
                  /\ trace' = Append(trace, Ev("get_submit", 0, Page(page.ok), page.csrf))
                  /\ IF ~page.ok THEN Crash("RequestException") /\ UNCHANGED csrf_token
                     ELSE IF ~CsrfFound(page.csrf) THEN Fail("Invalid problem", 0) /\ UNCHANGED csrf_token
                     ELSE IF IsNone(page.csrf) THEN Crash("AttributeError") /\ UNCHANGED csrf_token
                     ELSE Goto("upload_post") /\ csrf_token' = Get(page.csrf)
             /\ UNCHANGED <<slept, again, inputs, response, poll, agg, fin>>

\* lines 86-91 and 183-188: the POST, the status assertion, the no_wait return
UploadPost == /\ pc = "upload_post"
              /\ \E code \in UploadCodes :
                   /\ trace' = Append(trace, Ev("post", 0, code, None))
                   /\ IF code = NetFail
                      THEN Crash("RequestException") /\ UNCHANGED <<response, accepted>>
                      ELSE /\ response' = Some(code)
                           /\ IF ~UploadOk(code)
                              THEN Fail("Upload error with code", code) /\ UNCHANGED accepted
                              ELSE IF ReturnsAfterUpload(no_wait)
                              THEN /\ accepted' = Some(TRUE)
                                   /\ pc' = "done"
                                   /\ exit_code' = ExitCode(TRUE)
                                   /\ UNCHANGED <<error, exc>>
                              ELSE Goto("poll") /\ UNCHANGED accepted
              /\ UNCHANGED <<slept, again, inputs, post_url, csrf_token, poll, agg, res>>

\* mutant: the loop gives up after the first fetch
WhileTrue_Once == Count("get_record") < 1

\* line 94: while True
WhileTrue == TRUE

\* lines 95-105: one iteration of the polling loop up to the test of line 104
Poll == /\ pc = "poll"
        /\ WhileTrue
        /\ Count("get_record") < MaxPolls
        /\ \E doc \in RecordDocs :
             /\ trace' = Append(trace, Ev("get_record", 0, Page(doc.ok), doc.status))
             /\ IF ~doc.ok THEN Crash("RequestException") /\ UNCHANGED poll
                ELSE /\ soup' = doc
                     /\ IF IsNone(doc.status) THEN Crash("AttributeError") /\ UNCHANGED status
                        ELSE /\ status' = Strip(Get(doc.status))
                             /\ IF InProgress(status') THEN Goto("sleep") ELSE Goto("summary")
        /\ UNCHANGED <<slept, again, inputs, upload, agg, fin>>

\* mutant: the interval is two seconds
SleepSeconds_Doubled == 1 + 1

\* line 107: the argument of time.sleep
SleepSeconds == 1

\* lines 106-107: time.sleep(1)
Sleep == /\ pc = "sleep"
         /\ trace' = Append(trace, Ev("sleep", 0, 0, None))
         /\ slept' = slept + SleepSeconds
         /\ Goto("poll")
         /\ UNCHANGED <<again, inputs, upload, poll, agg, fin>>

\* mutant: the first <tr> is taken for a header and skipped
TableRows_SkipFirst(body) == IF IsNone(body) \/ Get(body).rows = <<>> THEN <<>>
                             ELSE Tail(Get(body).rows)

\* line 116: body.table.tbody.find_all("tr") if body else []
TableRows(body) == IF IsNone(body) THEN <<>> ELSE Get(body).rows

\* mutant: the list of a previous call is kept
FreshDetails_Stale == details

\* line 113: details = []
FreshDetails == <<>>

\* mutant: the tally of a previous call is kept
FreshCount_Stale == accepted_count

\* line 114: accepted_count = 0
FreshCount == 0

\* lines 108-116: summary, compiler text, the rows of the case table
Summary == /\ pc = "summary"
           /\ IF IsNone(soup.summary)
              THEN Crash("AttributeError") /\ UNCHANGED agg
              ELSE IF Len(Get(soup.summary)) < 2
              THEN Crash("IndexError") /\ UNCHANGED agg
              ELSE /\ summaries' = [Get(soup.summary) EXCEPT ![2] = ReplaceMs(@)]
                   /\ IF IsNone(soup.compiler)
                      THEN Crash("AttributeError")
                           /\ UNCHANGED <<compiler_text, table_rows, details, accepted_count>>
                      ELSE /\ compiler_text' = Strip(Get(soup.compiler))
                           /\ details' = FreshDetails
                           /\ accepted_count' = FreshCount
                           /\ IF ~IsNone(soup.body) /\ ~Get(soup.body).table
                              THEN Crash("AttributeError") /\ UNCHANGED table_rows
                              ELSE table_rows' = TableRows(soup.body) /\ Goto("rows")
           /\ UNCHANGED <<slept, again, inputs, trace, upload, poll, fin>>

\* mutant: a row with three spans counts as one with a link
HasLink_OrThreeSpans(tr) == ~IsNone(tr.a) \/ Len(tr.spans) >= 3

\* line 130: status_soup.find("a") is not None
HasLink(tr) == ~IsNone(tr.a)

\* mutant: no separating space is put in front
ExtraInfo_NoSpace(spans) == IF Len(spans) >= 3 THEN Strip(spans[3]) ELSE <<>>

\* lines 142-148, for the spans of a row that carries a link
ExtraInfo(spans) == LET e == IF Len(spans) >= 3 THEN Strip(spans[3]) ELSE <<>>
                    IN IF e # <<>> THEN <<" ">> \o e ELSE e

\* The page a detail link returns: any page for the first call of get_status,
\* and for the second call the page the same link returned to the first
DetailPagesFor(n) ==
    IF pass = 1 THEN DetailPages
    ELSE { [ok |-> TRUE, pre |-> trace[j].seen] :
             j \in { i \in 1..Len(trace) : trace[i].op = "get_detail" /\ trace[i].row = n } }

\* lines 42-49
Detail(st, extra, time, memory, stderr, out, ans) ==
    [status |-> st, extra_info |-> extra, time_cost |-> time, memory_cost |-> memory,
     stderr |-> stderr, out |-> out, ans |-> ans]

\* lines 117-159: one iteration of the loop over table_rows, the row after
\* the ones already appended to details
ProcessRow == /\ pc = "rows"
              /\ Len(details) < Len(table_rows)
              /\ LET n == Len(details) + 1
                     detail_tr == table_rows[n]
                 IN IF ~detail_tr.cell
                    THEN Crash("AttributeError") /\ UNCHANGED <<trace, details, accepted_count>>
                    ELSE IF Len(detail_tr.spans) < 2
                    THEN Crash("IndexError") /\ UNCHANGED <<trace, details, accepted_count>>
                    ELSE LET detail_status == Strip(detail_tr.spans[2])
                         IN /\ accepted_count' = accepted_count + (IF IsAccepted(detail_status) THEN 1 ELSE 0)
                            /\ IF IsNone(detail_tr.time) \/ IsNone(detail_tr.memory)
                               THEN Crash("AttributeError") /\ UNCHANGED <<trace, details>>
                               ELSE LET time_cost == ReplaceMs(Strip(Get(detail_tr.time)))
                                        memory_cost == Strip(Get(detail_tr.memory))
                                    IN IF HasLink(detail_tr)
                                       THEN \E page \in DetailPagesFor(n) :
                                            /\ trace' = Append(trace, Ev("get_detail", n, Page(page.ok), page.pre))
                                            /\ IF ~page.ok
                                               THEN Crash("RequestException") /\ UNCHANGED details
                                               ELSE IF Len(page.pre) < 3
                                               THEN Crash("IndexError") /\ UNCHANGED details
                                               ELSE /\ details' = Append(details,
                                                          Detail(detail_status, ExtraInfo(detail_tr.spans),
                                                                 time_cost, memory_cost,
                                                                 Strip(page.pre[1]), Strip(page.pre[2]),
                                                                 Strip(page.pre[3])))
                                                    /\ Goto("rows")
                                       ELSE /\ details' = Append(details,
                                                  Detail(detail_status, <<>>, time_cost, memory_cost,
                                                         <<>>, <<>>, <<>>))
                                            /\ Goto("rows")
                                            /\ UNCHANGED trace
              /\ UNCHANGED <<slept, again, inputs, upload, poll, summaries, compiler_text, table_rows, fin>>

\* lines 52-59
Record(st, n, score, total_time, peak_memory, ds, ct) ==
    [status |-> st, accepted_count |-> n, score |-> score, total_time |-> total_time,
     peak_memory |-> peak_memory, details |-> ds, compiler_text |-> ct]

\* lines 160-168: the loop is over, get_status returns the Record
Return == /\ pc = "rows"
          /\ Len(details) = Len(table_rows)
          /\ IF Len(summaries) < 3
             THEN Crash("IndexError") /\ UNCHANGED res
             ELSE /\ res' = Some(Record(status, accepted_count, summaries[1], summaries[2],
                                        summaries[3], details, compiler_text))
                  /\ Goto("report")
          /\ UNCHANGED <<slept, again, inputs, trace, upload, poll, agg, accepted>>

\* mutant: accepted when every case is accepted
SubmitResult_AllCases(r) == r.accepted_count = Len(r.details)

\* line 235: return res.status == "Accepted"
SubmitResult(r) == r.status = AcceptedLit

\* lines 189-235 and 332: submit reports the Record and returns, main exits
Report == /\ pc = "report"
          /\ accepted' = Some(SubmitResult(Get(res)))
          /\ exit_code' = ExitCode(SubmitResult(Get(res)))
          /\ pc' = "done"
          /\ UNCHANGED <<slept, again, inputs, trace, upload, poll, agg, res, error, exc>>

Next == \/ Main
        \/ Construct
        \/ UploadGet
        \/ UploadPost
        \/ Poll
        \/ Sleep
        \/ Summary
        \/ ProcessRow
        \/ Return
        \/ Report

Spec == Init /\ [][Next]_vars

\* lines 93-107, a second call of get_status(url) on the same evaluation: the
\* judge does not change a finished record, so the fetch returns the page of
\* the first call; the locals of the first call hold their last values
Again == /\ pc = "report"
         /\ pass = 1
         /\ pass' = 2
         /\ first' = res
         /\ res' = None
         /\ trace' = Append(trace, Ev("get_record", 0, Page(TRUE), soup.status))
         /\ Goto("summary")
         /\ UNCHANGED <<slept, inputs, upload, poll, agg, accepted>>

NextTwice == \/ Next
             \/ Again

\* the run, with get_status called a second time before submit reports
SpecTwice == Init /\ [][NextTwice]_vars

\* the single thread of the run always takes its next step
LiveSpec == Init /\ [][Next]_vars /\ WF_vars(Next)

\* ------------------------------------------------------------- properties
Ops(op) == { k \in 1..Len(trace) : trace[k].op = op }

\* the record page fetched by request k showed a status, in progress or not
SawInProgress(k) == /\ trace[k].code # NetFail
                    /\ ~IsNone(trace[k].seen)
                    /\ Strip(Get(trace[k].seen)) \in InProgressList

SawTerminal(k) == /\ trace[k].code # NetFail
                  /\ ~IsNone(trace[k].seen)
                  /\ Strip(Get(trace[k].seen)) \notin InProgressList

LinkRows == { k \in 1..Len(table_rows) : ~IsNone(table_rows[k].a) }

\* C1: the polling loop goes on after a record page only when its stripped
\* status is Waiting, Compiling, Fetched or Running and stops at the first
\* page with any other status; summary, rows and Record are only ever built
\* from that page, and no Record carries one of the four statuses.
C1_PollStopsAtFirstTerminal ==
    /\ \A k \in Ops("get_record") :
         /\ SawTerminal(k) =>
              /\ \A j \in (k + 1)..Len(trace) : trace[j].op \notin {"get_record", "sleep"}
              /\ pc \notin {"poll", "sleep"}
         /\ (\E j \in (k + 1)..Len(trace) : trace[j].op \in {"get_record", "sleep"}) => SawInProgress(k)
         /\ (SawInProgress(k) /\ k = Len(trace)) => pc = "sleep"
    /\ (pc \in {"summary", "rows", "report"} \/ res # None \/ summaries # <<>>) =>
         /\ soup.ok
         /\ ~IsNone(soup.status)
         /\ status = Strip(Get(soup.status))
         /\ status \notin InProgressList
         /\ \E k \in Ops("get_record") :
              /\ trace[k].seen = soup.status
              /\ \A j \in Ops("get_record") : j <= k
    /\ res # None => Get(res).status = status /\ Get(res).status \notin InProgressList

C1_Witness == /\ res # None
              /\ Cardinality(Ops("get_record")) = 2
              /\ Get(res).status = <<"accepted">>

\* C2: in every Record, and all along the loop over the rows, accepted_count
\* is the number of details whose status is exactly "Accepted".
C2_AcceptedCountMatchesDetails ==
    /\ pc \in {"rows", "report"} =>
         accepted_count = Cardinality({ k \in 1..Len(details) : details[k].status = <<"Accepted">> })
    /\ res # None =>
         Get(res).accepted_count =
           Cardinality({ k \in 1..Len(Get(res).details) : Get(res).details[k].status = <<"Accepted">> })

C2_Witness == /\ res # None
              /\ Get(res).accepted_count = 1
              /\ Len(Get(res).details) = 2
              /\ Get(res).details[1].status = <<"accepted">>

\* C3: a submit page without a csrf_token input ends the run with the
\* "Invalid problem" error, and no POST, record fetch, sleep or detail fetch
\* is ever issued.
C3_NoCsrfNoPost ==
    \A k \in Ops("get_submit") :
      (trace[k].code # NetFail /\ IsNone(trace[k].seen)) =>
        /\ k = Len(trace)
        /\ pc = "done"
        /\ error = [msg |-> "Invalid problem", code |-> 0]
        /\ exit_code = 128
        /\ exc = ""
        /\ Ops("post") = {} /\ Ops("get_record") = {} /\ Ops("sleep") = {} /\ Ops("get_detail") = {}
        /\ res = None

C3_Witness == /\ pc = "done"
              /\ \E k \in Ops("get_submit") : trace[k].code # NetFail /\ IsNone(trace[k].seen)

\* what follows an upload that is not treated as an error: no logged error,
\* submit returns true at once with no_wait and goes on to poll otherwise
UploadAccepted(k) == /\ error = NoError
                     /\ no_wait => accepted = Some(TRUE) /\ pc = "done"
                     /\ (~no_wait /\ k = Len(trace)) => pc = "poll"

\* what follows an upload that is treated as an error: the error carries the
\* status code and the record URL is never fetched
UploadRejected(k) == /\ k = Len(trace)
                     /\ pc = "done"
                     /\ error = [msg |-> "Upload error with code", code |-> trace[k].code]
                     /\ exit_code = 128
                     /\ Ops("get_record") = {} /\ Ops("sleep") = {} /\ Ops("get_detail") = {}

\* C4 as stated: an upload response with a non-2xx code is an error carrying
\* the code and nothing is polled; one with a 2xx code is not an error.
C4_Non2xxIsError ==
    \A k \in Ops("post") :
      trace[k].code # NetFail =>
        IF trace[k].code \in 200..299 THEN UploadAccepted(k) ELSE UploadRejected(k)

\* C4 amended: an upload response with a code other than 200 is an error
\* carrying the code and nothing is polled; one with code 200 is not an error.
C4_Non200IsError ==
    \A k \in Ops("post") :
      trace[k].code # NetFail =>
        IF trace[k].code = 200 THEN UploadAccepted(k) ELSE UploadRejected(k)

C4_Witness == /\ pc = "done"
              /\ error = [msg |-> "Upload error with code", code |-> 500]

\* C5: with waiting enabled, what submit returns is true exactly when the
\* Record's status is "Accepted"; a Record with status "Accepted" whose
\* details are all "Accepted" gives true and accepted_count = number of rows.
C5_AcceptedIffStatusAccepted ==
    /\ (~no_wait /\ accepted # None) =>
         /\ res # None
         /\ Get(accepted) <=> (Get(res).status = <<"Accepted">>)
    /\ (pc = "done" /\ res # None /\ Get(res).status = <<"Accepted">>
          /\ \A k \in 1..Len(Get(res).details) : Get(res).details[k].status = <<"Accepted">>) =>
         /\ accepted = Some(TRUE)
         /\ Get(res).accepted_count = Len(TableRows(soup.body))

C5_Witness == /\ pc = "done"
              /\ Ops("sleep") # {}
              /\ accepted = Some(TRUE)
              /\ Get(res).accepted_count = 2

\* C6: with no_wait the record URL is never fetched, nothing sleeps, no detail
\* page is fetched and no Record is built; a successful upload is the last
\* request and submit returns true right after it.
C6_NoWaitReturnsAfterUpload ==
    no_wait =>
      /\ Ops("get_record") = {} /\ Ops("sleep") = {} /\ Ops("get_detail") = {}
      /\ res = None
      /\ pc \notin {"poll", "sleep", "summary", "rows", "report"}
      /\ \A k \in Ops("post") :
           trace[k].code = 200 =>
             /\ k = Len(trace)
             /\ pc = "done"
             /\ accepted = Some(TRUE)
             /\ exit_code = 0

C6_Witness == /\ no_wait
              /\ accepted = Some(TRUE)
              /\ Ops("post") # {}

\* C7: nothing is requested with an empty or unset SID; the login check is the
\* first request, is issued once, and a response other than 200 to it is the
\* last request of the run; once the arguments validate, the run then ends
\* with the "Empty SID" or "Unauthorized SID" error.
C7_IdentityCheckFirst ==
    /\ sid \in {"", "<EMPTY>"} => trace = <<>>
    /\ (pc = "done" /\ argsValid /\ sid \in {"", "<EMPTY>"}) =>
         error = [msg |-> "Empty SID", code |-> 0] /\ exit_code = 128
    /\ \A k \in Ops("login") : k = 1
    /\ trace # <<>> => trace[1].op = "login"
    /\ (argsValid /\ sid \notin {"", "<EMPTY>"} /\ pc \notin {"main", "init"}) =>
         Cardinality(Ops("login")) = 1
    /\ (trace # <<>> /\ trace[1].code \notin {200, NetFail}) =>
         /\ Len(trace) = 1
         /\ pc = "done"
         /\ error = [msg |-> "Unauthorized SID", code |-> 0]
         /\ exit_code = 128

C7_Witness == /\ pc = "done"
              /\ error.msg = "Unauthorized SID"
              /\ trace[1].code = 401

\* C8 as stated: a terminal record page that shows a status and the three
\* summary values but no case-table container gives a Record with no
\* details and accepted_count 0, without an error and without a detail fetch.
C8_NoContainerGivesEmptyRecord ==
    (/\ pc = "done"
     /\ soup.ok
     /\ ~IsNone(soup.status)
     /\ Strip(Get(soup.status)) \notin InProgressList
     /\ ~IsNone(soup.summary)
     /\ Len(Get(soup.summary)) = 3
     /\ IsNone(soup.body)) =>
      /\ exc = ""
      /\ res # None
      /\ Get(res).details = <<>>
      /\ Get(res).accepted_count = 0
      /\ Ops("get_detail") = {}

\* C9: a row without a link gives a Detail with empty stderr, out, ans and
\* extra_info and is never fetched; detail pages are fetched only for rows
\* with a link, once each, and a finished aggregation has fetched exactly the
\* rows with a link.
C9_NoLinkNoFetch ==
    /\ \A k \in 1..Len(details) :
         IsNone(table_rows[k].a) =>
           /\ details[k].stderr = <<>> /\ details[k].out = <<>> /\ details[k].ans = <<>>
           /\ details[k].extra_info = <<>>
    /\ \A j \in Ops("get_detail") :
         /\ trace[j].row \in LinkRows
         /\ \A i \in Ops("get_detail") : trace[i].row = trace[j].row => i = j
    /\ res # None => Cardinality(Ops("get_detail")) = Cardinality(LinkRows)

C9_Witness == /\ res # None
              /\ Len(details) = 2
              /\ IsNone(table_rows[1].a) /\ Len(table_rows[1].spans) = 3
              /\ ~IsNone(table_rows[2].a)

\* C10: for a row with a link, extra_info is empty when the status cell has
\* fewer than 3 spans or a 3rd span that is empty once trimmed, and otherwise
\* one space followed by the trimmed text of the 3rd span.
C10_ExtraInfoOfLinkedRow ==
    \A k \in 1..Len(details) :
      ~IsNone(table_rows[k].a) =>
        LET spans == table_rows[k].spans
        IN IF Len(spans) < 3 \/ Strip(spans[3]) = <<>>
           THEN details[k].extra_info = <<>>
           ELSE details[k].extra_info = <<" ">> \o Strip(spans[3])

C10_Witness == \E k \in 1..Len(details) :
                 /\ ~IsNone(table_rows[k].a)
                 /\ details[k].extra_info = <<" ", "SIGSEGV">>

\* the text ends in " ms" with exactly one space in front of the unit
EndsInOneSpaceMs(t) == /\ Len(t) >= 4
                       /\ SubSeq(t, Len(t) - 2, Len(t)) = <<" ", "m", "s">>
                       /\ t[Len(t) - 3] \notin Whitespace

\* C11 as stated: the time_cost of every Detail ends in " ms" with exactly
\* one space between the numeral and the unit, whatever the time cell held.
C11_TimeCostEndsInMs ==
    \A k \in 1..Len(details) : EndsInOneSpaceMs(details[k].time_cost)

\* no request of the run raised: every page asked for was delivered
AllDelivered == \A k \in 1..Len(trace) : trace[k].op # "sleep" => trace[k].code # NetFail

\* C12 as stated: a run that ends without submit returning, all of its
\* requests answered, ends with a logged "Error: ..." message and exit code
\* 128, never with an exception that main does not catch.
C12_FatalIsTagged ==
    (pc = "done" /\ accepted = None /\ AllDelivered) =>
      /\ exc = ""
      /\ error.msg # ""
      /\ exit_code = 128

\* C13 as stated: a terminal record page with the three summary values and
\* no compiler-text block gives a Record whose compiler_text is empty,
\* without an error.
C13_NoCompilerTextGivesEmpty ==
    (/\ pc \in {"rows", "report", "done"}
     /\ soup.ok
     /\ ~IsNone(soup.status)
     /\ Strip(Get(soup.status)) \notin InProgressList
     /\ ~IsNone(soup.summary)
     /\ Len(Get(soup.summary)) = 3
     /\ IsNone(soup.compiler)) =>
      /\ exc = ""
      /\ compiler_text = <<>>
      /\ pc = "done" => res # None /\ Get(res).compiler_text = <<>>

\* C14 as stated: right after the detail page of a linked row came back with
\* fewer than three diagnostic blocks, no error is raised, the row has its
\* Detail, and the fields of the missing blocks are empty.
C14_MissingBlocksAreEmpty ==
    (/\ trace # <<>>
     /\ trace[Len(trace)].op = "get_detail"
     /\ trace[Len(trace)].code # NetFail
     /\ Len(trace[Len(trace)].seen) < 3
     /\ pc \in {"rows", "done"}
     /\ res = None) =>
      /\ exc = ""
      /\ pc = "rows"
      /\ Len(details) = trace[Len(trace)].row
      /\ details[Len(details)].ans = <<>>
      /\ Len(trace[Len(trace)].seen) < 2 => details[Len(details)].out = <<>>
      /\ Len(trace[Len(trace)].seen) < 1 => details[Len(details)].stderr = <<>>

\* C15: a second aggregation of the same terminal page, the detail links
\* returning the same pages, raises nothing and returns a Record equal to the
\* first in every field; nothing of the first call shows in the second.
C15_SecondAggregationIsEqual ==
    pass = 2 =>
      /\ first # None
      /\ exc = ""
      /\ Len(details) <= Len(Get(first).details)
      /\ \A k \in 1..Len(details) : details[k] = Get(first).details[k]
      /\ accepted_count <= Get(first).accepted_count
      /\ res # None => res = first

C15_Witness == /\ pass = 2
               /\ res # None
               /\ Len(Get(res).details) = 2
               /\ Get(res).accepted_count >= 1
               /\ \E k \in 1..Len(trace) : trace[k].op = "get_detail"

\* the rows of the case table of a record page, in document order
DocRows(doc) == IF IsNone(doc.body) THEN <<>> ELSE Get(doc.body).rows

\* C16: details[k] is built from the k-th row of the table of the terminal
\* page (its verdict, time and memory cells, its link), all along the loop;
\* a Record has exactly one Detail per row, in document order.
C16_OneDetailPerRowInOrder ==
    /\ Len(details) <= Len(DocRows(soup))
    /\ \A k \in 1..Len(details) :
         LET row == DocRows(soup)[k]
         IN /\ Len(row.spans) >= 2 /\ ~IsNone(row.time) /\ ~IsNone(row.memory)
            /\ details[k].status = Strip(row.spans[2])
            /\ details[k].time_cost = ReplaceMs(Strip(Get(row.time)))
            /\ details[k].memory_cost = Strip(Get(row.memory))
            /\ IsNone(row.a) <=> ~(\E j \in Ops("get_detail") : trace[j].row = k)
    /\ res # None =>
         /\ Get(res).details = details
         /\ Len(Get(res).details) = Len(DocRows(soup))

C16_Witness == /\ res # None
               /\ Len(Get(res).details) = 2
               /\ Get(res).details[1].status = <<"Wrong Answer">>
               /\ Get(res).details[2].status = <<"Accepted">>
               /\ Get(res).details[1].time_cost # Get(res).details[2].time_cost

\* requests of the record URL that showed a status in progress
InProgressFetches == { k \in Ops("get_record") : SawInProgress(k) }

\* C17: fetches of the record URL and sleeps alternate, starting with a
\* fetch right after the upload; a sleep follows exactly the fetches that
\* showed a status in progress and lasts one second; once the terminal status
\* is seen after k such fetches there are k + 1 fetches and k sleeps, for good.
C17_FetchSleepAlternate ==
    /\ \A k \in Ops("sleep") :
         k > 1 /\ trace[k - 1].op = "get_record" /\ SawInProgress(k - 1)
    /\ \A k \in Ops("get_record") :
         /\ k > 1 /\ trace[k - 1].op \in {"post", "sleep"}
         /\ (SawInProgress(k) /\ k < Len(trace)) => trace[k + 1].op = "sleep"
         /\ (~SawInProgress(k) /\ k < Len(trace)) => trace[k + 1].op = "get_detail"
    /\ LET sleeps == Cardinality(Ops("sleep"))
           k == Cardinality(InProgressFetches)
       IN /\ slept = sleeps
          /\ sleeps <= k
          /\ pc \notin {"poll", "sleep"} => sleeps = k
          /\ (\E j \in Ops("get_record") : SawTerminal(j)) =>
               /\ Cardinality(Ops("get_record")) = k + 1
               /\ sleeps = k

C17_Witness == /\ res # None
               /\ Cardinality(Ops("get_record")) = 2
               /\ Cardinality(Ops("sleep")) = 1
               /\ slept = 1

\* position of a request in the order of a run
Rank(op) == CASE op = "login" -> 0
              [] op = "get_submit" -> 1
              [] op = "post" -> 2
              [] op \in {"get_record", "sleep"} -> 3
              [] op = "get_detail" -> 4

\* request k did not give what the next step needs
Failed(k) == \/ trace[k].op # "sleep" /\ trace[k].code = NetFail
             \/ trace[k].op = "login" /\ trace[k].code # 200
             \/ trace[k].op = "get_submit" /\ IsNone(trace[k].seen)
             \/ trace[k].op = "post" /\ trace[k].code # 200
             \/ trace[k].op = "get_record" /\ IsNone(trace[k].seen)
             \/ trace[k].op = "get_detail" /\ Len(trace[k].seen) < 3

\* C19: the requests of a run come in the order login check, submit-page GET,
\* upload POST, record GETs, detail GETs; the submit-page GET and the POST are
\* issued at most once; a detail GET comes only after a record GET that showed
\* the terminal status; a failed request is the last one, and a run that has
\* raised or logged an error has ended.
C19_RequestOrderNoRetry ==
    /\ \A k \in 2..Len(trace) : Rank(trace[k - 1].op) <= Rank(trace[k].op)
    /\ Cardinality(Ops("get_submit")) <= 1
    /\ Cardinality(Ops("post")) <= 1
    /\ \A k \in Ops("get_detail") :
         /\ \E j \in 1..(k - 1) : trace[j].op = "get_record" /\ SawTerminal(j)
         /\ trace[k - 1].op = "get_detail" => trace[k - 1].row < trace[k].row
    /\ \A k \in 1..Len(trace) : Failed(k) => k = Len(trace) /\ pc = "done"
    /\ (exc # "" \/ error # NoError) => pc = "done"

C19_Witness == /\ res # None
               /\ Cardinality(Ops("get_detail")) = 2
               /\ Ops("sleep") # {}

\* every record page fetched so far was delivered and showed a status in progress
OnlyInProgressSoFar == /\ Ops("get_record") # {}
                       /\ \A k \in Ops("get_record") : SawInProgress(k)

StillPolling == /\ pc \in {"poll", "sleep"}
                /\ res = None
                /\ accepted = None
                /\ exit_code = NoExit
                /\ error = NoError
                /\ exc = ""

C20_ExitCodeMapping ==
    (pc = "done" /\ AllDelivered) =>
      /\ exit_code \in {0, 1, 128}
      /\ exit_code = 0 <=> accepted = Some(TRUE)
      /\ exit_code = 1 <=> accepted = Some(FALSE)
      /\ exit_code = 128 <=> error # NoError

====
